---- MODULE Spec2Model ----
(***************************************************************************)
(* State-machine model of the LYDIAN control plane:                        *)
(*   - the periodic sampler MockTraffic (apps/mocktraffic.py) and the      *)
(*     bounded record queue it feeds,                                      *)
(*   - the Podium orchestrator (apps/podium.py): endpoint registry, rule   *)
(*     registration fan-out, result and latency aggregation.               *)
(***************************************************************************)
EXTENDS Integers, Sequences, FiniteSets, TLC

(***************************************************************************)
(* Bounds of the model.                                                    *)
(***************************************************************************)
\* capacity of the records queue handed to the sampler (Podium builds its
\* queues with MAX_QUEUE_SIZE, podium.py:46,59-60; the model scales it down)
QueueCap == 2
\* enqueue attempts made by sampling loops
MaxAttempts == 4
\* Thread objects created by start()
MaxThreads == 2

None == "None"

Max(a, b) == IF a >= b THEN a ELSE b

Min(a, b) == IF a <= b THEN a ELSE b

(***************************************************************************)
(* Part 1.  MockTraffic: the periodic sampler.                             *)
(***************************************************************************)
VARIABLES
    stop_switch,   \* self._stop_switch.is_set()
    thread,        \* self._thread: 0 is None, t > 0 is a Thread object
    tpc,           \* per Thread object: where its run of ping() stands
    crashed,       \* Thread objects whose ping() ended with an uncaught exception
    rqueue,        \* self._rqueue: the bounded records queue
    attempts,      \* number of put() calls made by sampling loops
    dropped,       \* number of put() calls that raised queue.Full
    errlog,        \* number of log.error lines written by ping()
    dequeued,      \* number of records taken off the queue by the consumer
    cpc,           \* per caller: position inside start() / stop()
    cpre,          \* per caller: what the caller observed when it made the call
    last           \* per caller: the call that returned last

samplerVars == <<stop_switch, thread, tpc, crashed, rqueue, attempts, dropped,
                 errlog, dequeued, cpc, cpre, last>>

(***************************************************************************)
(* State of the Podium orchestrator and of the agents it talks to.         *)
(***************************************************************************)
VARIABLES
    ep_hosts,      \* self._ep_hosts: endpoint IP -> host IP (a dict)
    rules,         \* self.rules_app.rules: ruleid -> rule (the local rule store)
    uuids,         \* number of uuid4() values drawn for rule ids
    recs,          \* per agent host: the rows of its traffic record store
    op,            \* the coordinator call in progress, "idle" when none
    pc,            \* where that call stands: "idle", "dispatch" or "done"
    loc,           \* the local variables of that call
    jobs,          \* the jobs the call hands to ThreadPool: <<role, host>> -> job
    tp_results     \* the mapping the current ThreadPool call builds, in insertion order

podiumVars == <<ep_hosts, rules, uuids, recs, op, pc, loc, jobs, tp_results>>

(***************************************************************************)
(* State of the Wavefront recorders (recorder/wf_client.py).               *)
(***************************************************************************)
VARIABLES
    config,        \* the live configuration: parameter -> value
    wpc,           \* where the write() call in progress stands, "idle" when none
    wtodo,         \* the metrics the write() call in progress has still to send
    wlog           \* per write() call made: recorder, record, the enabled flag
                   \* it read, the metrics it sent and how it ended

recorderVars == <<config, wpc, wtodo, wlog>>

Callers == {1, 2}

Threads == 1 .. MaxThreads

\* the record ping() builds on every iteration
MockRecord ==
    [source |-> "0.0.0.0", destination |-> "0.0.0.0", protocol |-> "TCP",
     port |-> "00", result |-> TRUE, reqid |-> "0000-00000-0000",
     ruleid |-> "0000-00000-0000", latency |-> "0"]

\* threading.Thread.is_alive(): started and run() not yet finished
IsAlive(t) == tpc[t] \in {"check", "put", "sleep"}

AliveThreads == {t \in Threads : IsAlive(t)}

CreatedThreads == {t \in Threads : tpc[t] # "unborn"}

\* MockTraffic.is_running
is_running == thread # 0 /\ IsAlive(thread)

\* MockTraffic.enabled
enabled == ~stop_switch

\* what a caller observes of the sampler; attempts is observed again at the
\* moment stop() sets the stop signal, and joining is the Thread object the
\* caller's join() is waiting on
Snapshot ==
    [running |-> is_running, created |-> CreatedThreads, alive |-> AliveThreads,
     attempts |-> attempts, joining |-> 0]

NoSnapshot ==
    [running |-> FALSE, created |-> {}, alive |-> {}, attempts |-> 0,
     joining |-> 0]

SamplerInit ==
    /\ stop_switch = TRUE
    /\ thread = 0
    /\ tpc = [t \in Threads |-> "unborn"]
    /\ crashed = {}
    /\ rqueue = <<>>
    /\ attempts = 0
    /\ dropped = 0
    /\ errlog = 0
    /\ dequeued = 0
    /\ cpc = [c \in Callers |-> "idle"]
    /\ cpre = [c \in Callers |-> NoSnapshot]
    /\ last = [c \in Callers |-> "none"]

---------------------------------------------------------------------------
\* stop(), line by line

CallStop(c) ==
    /\ cpc[c] = "idle"
    /\ cpc' = [cpc EXCEPT ![c] = "stop90"]
    /\ cpre' = [cpre EXCEPT ![c] = Snapshot]
    /\ UNCHANGED <<podiumVars, recorderVars>>
    /\ UNCHANGED <<stop_switch, thread, tpc, crashed, rqueue, attempts, dropped,
                   errlog, dequeued, last>>

\* self._stop_switch.set()
Stop90(c) ==
    /\ cpc[c] = "stop90"
    /\ stop_switch' = TRUE
    /\ cpc' = [cpc EXCEPT ![c] = "stop91"]
    /\ cpre' = [cpre EXCEPT ![c].attempts = attempts]
    /\ UNCHANGED <<podiumVars, recorderVars>>
    /\ UNCHANGED <<thread, tpc, crashed, rqueue, attempts, dropped, errlog,
                   dequeued, last>>

\* the condition of `if self.is_running():`
StopJoins == is_running

\* if self.is_running():
Stop91(c) ==
    /\ cpc[c] = "stop91"
    /\ cpc' = [cpc EXCEPT ![c] = IF StopJoins THEN "stop92" ELSE "stop94"]
    /\ UNCHANGED <<podiumVars, recorderVars>>
    /\ UNCHANGED <<stop_switch, thread, tpc, crashed, rqueue, attempts, dropped,
                   errlog, dequeued, cpre, last>>

\* self._thread.join(), the call: self._thread is read again here, and is
\* None (AttributeError, stop() raises) when another caller has reset it
\* since line 91
Stop92(c) ==
    /\ cpc[c] = "stop92"
    /\ IF thread = 0
         THEN /\ cpc' = [cpc EXCEPT ![c] = "idle"]
              /\ last' = [last EXCEPT ![c] = "raised"]
              /\ cpre' = cpre
         ELSE /\ cpc' = [cpc EXCEPT ![c] = "join"]
              /\ last' = last
              /\ cpre' = [cpre EXCEPT ![c].joining = thread]
    /\ UNCHANGED <<podiumVars, recorderVars>>
    /\ UNCHANGED <<stop_switch, thread, tpc, crashed, rqueue, attempts, dropped,
                   errlog, dequeued>>

\* self._thread.join(), the wait: blocks until that thread has finished
StopJoin(c) ==
    /\ cpc[c] = "join"
    /\ ~IsAlive(cpre[c].joining)
    /\ cpc' = [cpc EXCEPT ![c] = "stop93"]
    /\ UNCHANGED <<podiumVars, recorderVars>>
    /\ UNCHANGED <<stop_switch, thread, tpc, crashed, rqueue, attempts, dropped,
                   errlog, dequeued, cpre, last>>

\* self._thread = None
Stop93(c) ==
    /\ cpc[c] = "stop93"
    /\ thread' = 0
    /\ cpc' = [cpc EXCEPT ![c] = "stop94"]
    /\ UNCHANGED <<podiumVars, recorderVars>>
    /\ UNCHANGED <<stop_switch, tpc, crashed, rqueue, attempts, dropped, errlog,
                   dequeued, cpre, last>>

\* log.info("Stopped resource monitoring."); return
Stop94(c) ==
    /\ cpc[c] = "stop94"
    /\ cpc' = [cpc EXCEPT ![c] = "idle"]
    /\ last' = [last EXCEPT ![c] = "stop"]
    /\ UNCHANGED <<podiumVars, recorderVars>>
    /\ UNCHANGED <<stop_switch, thread, tpc, crashed, rqueue, attempts, dropped,
                   errlog, dequeued, cpre>>

---------------------------------------------------------------------------
\* start(), line by line

CallStart(c) ==
    /\ cpc[c] = "idle"
    /\ thread # 0 \/ Cardinality(CreatedThreads) < MaxThreads
    /\ cpc' = [cpc EXCEPT ![c] = "start100"]
    /\ cpre' = [cpre EXCEPT ![c] = Snapshot]
    /\ UNCHANGED <<podiumVars, recorderVars>>
    /\ UNCHANGED <<stop_switch, thread, tpc, crashed, rqueue, attempts, dropped,
                   errlog, dequeued, last>>

\* self._stop_switch.clear()
Start100(c) ==
    /\ cpc[c] = "start100"
    /\ stop_switch' = FALSE
    /\ cpc' = [cpc EXCEPT ![c] = "start101"]
    /\ UNCHANGED <<podiumVars, recorderVars>>
    /\ UNCHANGED <<thread, tpc, crashed, rqueue, attempts, dropped, errlog,
                   dequeued, cpre, last>>

StartLaunchesM == TRUE

\* the condition of `if not self._thread:`
StartLaunches == thread = 0

\* if not self._thread:
Start101(c) ==
    /\ cpc[c] = "start101"
    /\ cpc' = [cpc EXCEPT ![c] = IF StartLaunches THEN "start102" ELSE "start105"]
    /\ UNCHANGED <<podiumVars, recorderVars>>
    /\ UNCHANGED <<stop_switch, thread, tpc, crashed, rqueue, attempts, dropped,
                   errlog, dequeued, cpre, last>>

\* self._thread = threading.Thread(target=self.ping); setDaemon(True)
Start102(c) ==
    /\ cpc[c] = "start102"
    /\ \E t \in Threads :
         /\ tpc[t] = "unborn"
         /\ \A u \in Threads : u < t => tpc[u] # "unborn"
         /\ thread' = t
         /\ tpc' = [tpc EXCEPT ![t] = "created"]
    /\ cpc' = [cpc EXCEPT ![c] = "start104"]
    /\ UNCHANGED <<podiumVars, recorderVars>>
    /\ UNCHANGED <<stop_switch, crashed, rqueue, attempts, dropped, errlog,
                   dequeued, cpre, last>>

\* self._thread.start(): self._thread is read again here; the call returns
\* once the thread is running, and raises when another caller has reset
\* self._thread to None (AttributeError) or has already started the Thread
\* object it holds now (RuntimeError: threads can only be started once)
Start104(c) ==
    /\ cpc[c] = "start104"
    /\ IF thread # 0 /\ tpc[thread] = "created"
         THEN /\ tpc' = [tpc EXCEPT ![thread] = "check"]
              /\ cpc' = [cpc EXCEPT ![c] = "start105"]
              /\ last' = last
         ELSE /\ tpc' = tpc
              /\ cpc' = [cpc EXCEPT ![c] = "idle"]
              /\ last' = [last EXCEPT ![c] = "raised"]
    /\ UNCHANGED <<podiumVars, recorderVars>>
    /\ UNCHANGED <<stop_switch, thread, crashed, rqueue, attempts, dropped,
                   errlog, dequeued, cpre>>

\* log.info("Started resource monitoring."); return
Start105(c) ==
    /\ cpc[c] = "start105"
    /\ cpc' = [cpc EXCEPT ![c] = "idle"]
    /\ last' = [last EXCEPT ![c] = "start"]
    /\ UNCHANGED <<podiumVars, recorderVars>>
    /\ UNCHANGED <<stop_switch, thread, tpc, crashed, rqueue, attempts, dropped,
                   errlog, dequeued, cpre>>

---------------------------------------------------------------------------
\* ping(): the sampling loop run by the background thread

\* while not self._stop_switch.is_set():
PingCheck(t) ==
    /\ tpc[t] = "check"
    /\ \/ /\ stop_switch
          /\ tpc' = [tpc EXCEPT ![t] = "dead"]
       \/ /\ ~stop_switch
          /\ attempts < MaxAttempts
          /\ tpc' = [tpc EXCEPT ![t] = "put"]
    /\ UNCHANGED <<podiumVars, recorderVars>>
    /\ UNCHANGED <<stop_switch, thread, crashed, rqueue, attempts, dropped,
                   errlog, dequeued, cpc, cpre, last>>

QueueFullM(q) == FALSE

\* queue.Queue.full() of a queue built with maxsize QueueCap
QueueFull(q) == Len(q) >= QueueCap

\* the except clauses around put(): queue.Full and Exception are both caught
CaughtInLoop(exc) == exc \in {"Full", "Exception"}

\* rec = TrafficRecord(); ...; self._rqueue.put(rec, block=False, timeout=2)
PingPut(t) ==
    /\ tpc[t] = "put"
    /\ attempts' = attempts + 1
    /\ IF QueueFull(rqueue)
         THEN /\ rqueue' = rqueue
              /\ dropped' = dropped + 1
              /\ IF CaughtInLoop("Full")
                   THEN /\ errlog' = errlog + 1
                        /\ tpc' = [tpc EXCEPT ![t] = "sleep"]
                        /\ crashed' = crashed
                   ELSE /\ errlog' = errlog
                        /\ tpc' = [tpc EXCEPT ![t] = "dead"]
                        /\ crashed' = crashed \cup {t}
         ELSE /\ rqueue' = Append(rqueue, MockRecord)
              /\ dropped' = dropped
              /\ errlog' = errlog
              /\ tpc' = [tpc EXCEPT ![t] = "sleep"]
              /\ crashed' = crashed
    /\ UNCHANGED <<podiumVars, recorderVars>>
    /\ UNCHANGED <<stop_switch, thread, dequeued, cpc, cpre, last>>

\* a loop that tests the stop signal only before its first iteration
PingSleepM(t) ==
    /\ tpc[t] = "sleep"
    /\ attempts < MaxAttempts
    /\ tpc' = [tpc EXCEPT ![t] = "put"]
    /\ UNCHANGED <<podiumVars, recorderVars>>
    /\ UNCHANGED <<stop_switch, thread, crashed, rqueue, attempts, dropped,
                   errlog, dequeued, cpc, cpre, last>>

\* time.sleep(self._interval)
PingSleep(t) ==
    /\ tpc[t] = "sleep"
    /\ tpc' = [tpc EXCEPT ![t] = "check"]
    /\ UNCHANGED <<podiumVars, recorderVars>>
    /\ UNCHANGED <<stop_switch, thread, crashed, rqueue, attempts, dropped,
                   errlog, dequeued, cpc, cpre, last>>

\* the consumption stage takes one record off the queue
Dequeue ==
    /\ rqueue # <<>>
    /\ rqueue' = Tail(rqueue)
    /\ dequeued' = dequeued + 1
    /\ UNCHANGED <<podiumVars, recorderVars>>
    /\ UNCHANGED <<stop_switch, thread, tpc, crashed, attempts, dropped, errlog,
                   cpc, cpre, last>>

(***************************************************************************)
(* Part 2.  Podium: endpoint registry.                                     *)
(***************************************************************************)
Hosts == {"h1", "h2"}

\* endpoint IPs an agent may own besides its host IP
ExtraIPs == {"ip1"}

\* interface names an agent reports, as <<prefix, rest of the name>>
IfaceNames == {<<"eth", "0">>, <<"lo", "">>}

NAMESPACE_INTERFACE_NAME_PREFIXES == {"eth"}

\* str.startswith
StartsWith(iface, x) == iface[1] = x

\* what get_interface_ips_map() of the agent on host h may answer
InterfaceIPsMaps(h) ==
    {[i \in IfaceNames |-> IF i[1] = "eth" THEN e ELSE {"127.0.0.1"}] :
        e \in SUBSET ({h} \cup ExtraIPs)}

\* what list_namespaces_ips() of the agent on host h may answer
NamespaceIPs(h) == SUBSET ExtraIPs

EmptyMap == <<>>

NoLoc ==
    [reqid |-> None, intent |-> <<>>, trules |-> <<>>, phased |-> FALSE,
     hrm |-> <<>>, plan |-> <<>>, hostips |-> {}, method |-> None,
     acc |-> <<>>, ret |-> None, raised |-> FALSE, caller |-> None,
     stats |-> None, args |-> <<>>]

\* a job of a ThreadPool call; opened counts the sessions (LydianClient) the
\* job has opened and open those it has opened and not yet released
Job(state, args) ==
    [state |-> state, args |-> args, pc |-> "", todo |-> {}, opened |-> 0, open |-> 0]

\* ThreadPool(func, args): every job of the pass is handed to the pool
Submit(js, pass) ==
    [j \in DOMAIN js |-> IF j \in pass THEN [js[j] EXCEPT !.state = "queued"] ELSE js[j]]

\* the ThreadPool call returns once every job handed to it has finished
PoolDone == \A j \in DOMAIN jobs : jobs[j].state \in {"waiting", "returned", "raised"}

\* Podium.endpoints
endpoints == DOMAIN ep_hosts

\* Podium.get_ep_host
get_ep_host(epip) == IF epip \in DOMAIN ep_hosts THEN ep_hosts[epip] ELSE None

\* self._ep_hosts[ip] = hostip
SetEndpoint(eps, ip, hostip) ==
    [k \in DOMAIN eps \cup {ip} |-> IF k = ip THEN hostip ELSE eps[k]]

PodiumInit ==
    /\ ep_hosts = EmptyMap
    /\ rules = EmptyMap
    /\ uuids = 0
    /\ recs = [h \in Hosts |-> <<>>]
    /\ op = "idle"
    /\ pc = "idle"
    /\ loc = NoLoc
    /\ jobs = EmptyMap
    /\ tp_results = <<>>

\* add_hosts(hostips): one add_host job per host, run by ThreadPool
AddHosts(hostips) ==
    /\ op = "idle"
    /\ op' = "add_hosts"
    /\ pc' = "dispatch"
    /\ jobs' = [j \in {<<"add_host", h>> : h \in hostips} |-> Job("queued", <<j[2]>>)]
    /\ tp_results' = <<>>
    /\ UNCHANGED <<ep_hosts, rules, uuids, recs, loc>>
    /\ UNCHANGED <<samplerVars, recorderVars>>

AddHostJob(h) == <<"add_host", h>>

AtAddHost(h, state, at) ==
    /\ op = "add_hosts"
    /\ AddHostJob(h) \in DOMAIN jobs
    /\ jobs[AddHostJob(h)].state = state
    /\ jobs[AddHostJob(h)].pc = at

\* add_host: prep_node and wait_on_host, then add_endpoints; an exception of
\* prep_node is caught and logged by add_host itself
AddHostPrep(h) ==
    /\ AtAddHost(h, "queued", "")
    /\ \/ jobs' = [jobs EXCEPT ![AddHostJob(h)].state = "running",
                               ![AddHostJob(h)].pc = "check"]
       \/ jobs' = [jobs EXCEPT ![AddHostJob(h)].state = "returned"]
    /\ tp_results' = IF jobs'[AddHostJob(h)].state = "returned"
                       THEN Append(tp_results, [key |-> h, val |-> None])
                       ELSE tp_results
    /\ UNCHANGED <<ep_hosts, rules, uuids, recs, op, pc, loc>>
    /\ UNCHANGED <<samplerVars, recorderVars>>

\* the job's add_host call returns (add_host returns None), at pc `at`; the
\* with statement, when it was entered, has released the session
AddHostReturnsAt(h, at) ==
    /\ jobs' = [jobs EXCEPT ![AddHostJob(h)].state = "returned",
                            ![AddHostJob(h)].pc = at,
                            ![AddHostJob(h)].todo = {},
                            ![AddHostJob(h)].open = 0]
    /\ tp_results' = Append(tp_results, [key |-> h, val |-> None])

AddHostReturns(h) == AddHostReturnsAt(h, "")

AlreadyAddedM(hostip) == FALSE

\* the guard of add_endpoints: `if hostip in self.endpoints`
AlreadyAdded(hostip) == hostip \in endpoints

\* add_endpoints, lines 105-107: a host already added is logged and the
\* call returns
AddEndpointsCheck(h) ==
    /\ AtAddHost(h, "running", "check")
    /\ IF AlreadyAdded(h)
         THEN AddHostReturnsAt(h, "already")
         ELSE /\ jobs' = [jobs EXCEPT ![AddHostJob(h)].pc = "open"]
              /\ tp_results' = tp_results
    /\ UNCHANGED <<ep_hosts, rules, uuids, recs, op, pc, loc>>
    /\ UNCHANGED <<samplerVars, recorderVars>>

\* the interface IPs add_endpoints keeps: those of the interfaces whose name
\* starts with one of NAMESPACE_INTERFACE_NAME_PREFIXES
KeptInterfaceIPs(ifmap) ==
    UNION {ifmap[i] : i \in {n \in DOMAIN ifmap :
                \E x \in NAMESPACE_INTERFACE_NAME_PREFIXES : StartsWith(n, x)}}

\* with LydianClient(hostip) as client: client.interface.get_interface_ips_map();
\* a failure is caught by the except clause of add_endpoints
AddEndpointsOpen(h) ==
    /\ AtAddHost(h, "running", "open")
    /\ \/ \E ifmap \in InterfaceIPsMaps(h) :
            /\ jobs' = [jobs EXCEPT ![AddHostJob(h)].pc = "ifaces",
                                    ![AddHostJob(h)].todo = KeptInterfaceIPs(ifmap),
                                    ![AddHostJob(h)].opened = @ + 1,
                                    ![AddHostJob(h)].open = @ + 1]
            /\ tp_results' = tp_results
       \/ AddHostReturns(h)
    /\ UNCHANGED <<ep_hosts, rules, uuids, recs, op, pc, loc>>
    /\ UNCHANGED <<samplerVars, recorderVars>>

\* for ip in ips: self._ep_hosts[ip] = hostip   (both loops)
AddEndpointsAssign(h) ==
    /\ op = "add_hosts"
    /\ AddHostJob(h) \in DOMAIN jobs
    /\ jobs[AddHostJob(h)].state = "running"
    /\ jobs[AddHostJob(h)].pc \in {"ifaces", "namespaces"}
    /\ \E ip \in jobs[AddHostJob(h)].todo :
         /\ ep_hosts' = SetEndpoint(ep_hosts, ip, h)
         /\ jobs' = [jobs EXCEPT ![AddHostJob(h)].todo = @ \ {ip}]
    /\ UNCHANGED <<rules, uuids, recs, op, pc, loc, tp_results>>
    /\ UNCHANGED <<samplerVars, recorderVars>>

\* client.namespace.list_namespaces_ips(); a failure is caught by the except
\* clause of add_endpoints, after the interface IPs have been stored
AddEndpointsNamespaces(h) ==
    /\ AtAddHost(h, "running", "ifaces")
    /\ jobs[AddHostJob(h)].todo = {}
    /\ \/ \E ips \in NamespaceIPs(h) :
            /\ jobs' = [jobs EXCEPT ![AddHostJob(h)].pc = "namespaces",
                                    ![AddHostJob(h)].todo = ips]
            /\ tp_results' = tp_results
       \/ AddHostReturns(h)
    /\ UNCHANGED <<ep_hosts, rules, uuids, recs, op, pc, loc>>
    /\ UNCHANGED <<samplerVars, recorderVars>>

\* self._ep_hosts[hostip] = hostip
AddEndpointsSelf(h) ==
    /\ AtAddHost(h, "running", "namespaces")
    /\ jobs[AddHostJob(h)].todo = {}
    /\ ep_hosts' = SetEndpoint(ep_hosts, h, h)
    /\ AddHostReturns(h)
    /\ UNCHANGED <<rules, uuids, recs, op, pc, loc>>
    /\ UNCHANGED <<samplerVars, recorderVars>>

\* ThreadPool has returned: add_hosts returns
AddHostsReturn ==
    /\ op = "add_hosts"
    /\ pc = "dispatch"
    /\ PoolDone
    /\ op' = "idle"
    /\ pc' = "idle"
    /\ loc' = NoLoc
    /\ jobs' = EmptyMap
    /\ tp_results' = <<>>
    /\ UNCHANGED <<ep_hosts, rules, uuids, recs>>
    /\ UNCHANGED <<samplerVars, recorderVars>>

RegistryStep ==
    \/ \E hs \in SUBSET Hosts \ {{}} : AddHosts(hs)
    \/ \E h \in Hosts :
         \/ AddHostPrep(h)
         \/ AddEndpointsCheck(h)
         \/ AddEndpointsOpen(h)
         \/ AddEndpointsAssign(h)
         \/ AddEndpointsNamespaces(h)
         \/ AddEndpointsSelf(h)
    \/ AddHostsReturn

(***************************************************************************)
(* Part 3.  Podium: rule registration fan-out.                             *)
(***************************************************************************)
\* rule ids (uuid4 values) drawn over a run
MaxRules == 2
\* intents handed to one register_traffic call
MaxBatch == 2

ReqIds == {"r1", "r2"}

\* the endpoint IPs intents name
EPs == Hosts \cup ExtraIPs

\* the string '%s' % uuid.uuid4() for the n-th value uuid4() yields
UuidStr(n) == ToString(n)

create_traffic_intentM(src_ip, dst_ip, dst_port, protocol, reqid, uuid) ==
    [reqid |-> IF reqid = None THEN UuidStr(uuid + 1) ELSE reqid,
     ruleid |-> IF reqid = None THEN uuid + 2 ELSE uuid + 1,
     src |-> dst_ip, dst |-> src_ip,
     port |-> dst_port, protocol |-> protocol, connected |-> TRUE]

\* create_traffic_intent(src_ip, dst_ip, dst_port, protocol, reqid=None); uuid
\* is the number of values uuid4() has yielded before the call: reqid draws
\* one when none is given, then ruleid draws one (held as its number)
create_traffic_intent(src_ip, dst_ip, dst_port, protocol, reqid, uuid) ==
    [reqid |-> IF reqid = None THEN UuidStr(uuid + 1) ELSE reqid,
     ruleid |-> IF reqid = None THEN uuid + 2 ELSE uuid + 1,
     src |-> src_ip, dst |-> dst_ip,
     port |-> dst_port, protocol |-> protocol, connected |-> TRUE]

\* TrafficRule.fill(): fields already set are kept
fill(trule) == trule

\* create_traffic_rule(intent): setattr(trule, key, value) for every item of
\* the intent, then trule.fill()
create_traffic_rule(intent) == fill([key \in DOMAIN intent |-> intent[key]])

\* defaultdict(list): d[key].append(val)
AppendTo(d, key, val) ==
    [k \in DOMAIN d \cup {key} |->
        IF k = key THEN (IF key \in DOMAIN d THEN Append(d[key], val) ELSE <<val>>)
        ELSE d[k]]

SkippedM(srchost, dsthost) == srchost = None

\* `if not srchost: ... continue / elif not dsthost: ... continue`
Skipped(srchost, dsthost) == srchost = None \/ dsthost = None

\* the loop of register_traffic over the intents: servers keyed by the
\* destination's host, clients keyed by the source's host, and the local rules
RECURSIVE SplitByRole(_, _)
SplitByRole(intent, acc) ==
    IF intent = <<>> THEN acc
    ELSE LET rule == Head(intent)
             srchost == get_ep_host(rule.src)
             dsthost == get_ep_host(rule.dst)
         IN  IF Skipped(srchost, dsthost)
               THEN SplitByRole(Tail(intent), acc)
               ELSE SplitByRole(Tail(intent),
                        [servers |-> AppendTo(acc.servers, dsthost, rule),
                         clients |-> AppendTo(acc.clients, srchost, rule),
                         trules |-> Append(acc.trules, create_traffic_rule(rule))])

\* for host, rules in clients.items(): servers[host].extend(rules)
ExtendServers(servers, clients) ==
    [h \in DOMAIN servers \cup DOMAIN clients |->
        (IF h \in DOMAIN servers THEN servers[h] ELSE <<>>)
        \o (IF h \in DOMAIN clients THEN clients[h] ELSE <<>>)]

\* host_rules_map: [servers, clients] when TRAFFIC_START_SERVERS_FIRST is
\* set, else the one merged map
host_rules_map(phased, servers, clients) ==
    IF phased
      THEN <<[role |-> "server", map |-> servers], [role |-> "client", map |-> clients]>>
      ELSE <<[role |-> "merged", map |-> ExtendServers(servers, clients)]>>

JobsOfPass(host_rules) == {<<host_rules.role, h>> : h \in DOMAIN host_rules.map}

DispatchPlanM(hrm) == <<UNION {JobsOfPass(hrm[i]) : i \in 1 .. Len(hrm)}>>

\* `for host_rules in host_rules_map: ThreadPool(_register_traffic_rules,
\* collection)`: one ThreadPool call per map, each awaited before the next
DispatchPlan(hrm) == [i \in 1 .. Len(hrm) |-> JobsOfPass(hrm[i])]

\* collection = [(host, (host, rules), {}) for host, rules in host_rules.items()]
RegisterJobs(hrm) ==
    LET all == UNION {JobsOfPass(hrm[i]) : i \in 1 .. Len(hrm)}
        passOf(j) == CHOOSE i \in 1 .. Len(hrm) : hrm[i].role = j[1]
    IN  [j \in all |-> Job("waiting", hrm[passOf(j)].map[j[2]])]

\* rules_app.add_rules(_trules): the rule store is keyed by ruleid
add_rules(store, trules) ==
    LET ids == {trules[i].ruleid : i \in 1 .. Len(trules)}
        lastOf(id) == CHOOSE i \in 1 .. Len(trules) :
                          /\ trules[i].ruleid = id
                          /\ \A k \in 1 .. Len(trules) : trules[k].ruleid = id => k <= i
    IN  [id \in DOMAIN store \cup ids |->
            IF id \in ids THEN trules[lastOf(id)] ELSE store[id]]

\* the batches of (source, destination) pairs of at most n intents
Batches(pairs, n) == UNION {[1 .. k -> pairs] : k \in 1 .. n}

AllPairs == {p \in EPs \X EPs : p[1] # p[2]}

\* register_traffic(intent), lines 218-250 and the first ThreadPool call, for
\* intents whose creation drew `drawn` uuid4 values
RegisterIntents(intent, reqid, phased, caller, args, drawn) ==
    /\ op = "idle"
    /\ LET split == SplitByRole(intent, [servers |-> EmptyMap, clients |-> EmptyMap,
                                         trules |-> <<>>])
           hrm == host_rules_map(phased, split.servers, split.clients)
           plan == DispatchPlan(hrm)
       IN  /\ loc' = [NoLoc EXCEPT !.reqid = reqid, !.intent = intent,
                                   !.trules = split.trules, !.phased = phased,
                                   !.hrm = hrm, !.plan = Tail(plan),
                                   !.caller = caller, !.args = args]
           /\ jobs' = Submit(RegisterJobs(hrm), Head(plan))
    /\ uuids' = uuids + drawn
    /\ op' = "register"
    /\ pc' = "dispatch"
    /\ tp_results' = <<>>
    /\ UNCHANGED <<ep_hosts, rules, recs>>
    /\ UNCHANGED <<samplerVars, recorderVars>>

\* register_traffic called by the operator with intents built by
\* create_traffic_intent for one request id
RegisterTraffic(batch, reqid, phased) ==
    /\ uuids + Len(batch) <= MaxRules
    /\ RegisterIntents([i \in 1 .. Len(batch) |->
                            create_traffic_intent(batch[i][1], batch[i][2], 5000, "TCP",
                                                  reqid, uuids + i - 1)],
                       reqid, phased, None, <<>>, Len(batch))

\* uuid4 values drawn by run_traffic and run_mesh_ping over a run
MaxUuids == 7

Protocols == {"TCP", "UDP"}

\* run_traffic(src_ip, dst_ip, dst_port, protocol) with the default duration:
\* one intent with a fresh reqid is registered and the reqid is returned
RunTraffic(src_ip, dst_ip, dst_port, protocol, phased) ==
    /\ uuids + 2 <= MaxUuids
    /\ LET _intent == create_traffic_intent(src_ip, dst_ip, dst_port, protocol,
                                            None, uuids)
       IN  RegisterIntents(<<_intent>>, _intent.reqid, phased, "run_traffic",
                           <<src_ip, dst_ip, dst_port, protocol>>, 2)

\* the ordered pairs of positions i < k only
permutationsM(hosts) ==
    LET n == Len(hosts)
        all == [x \in 1 .. n * n |-> <<((x - 1) \div n) + 1, ((x - 1) % n) + 1>>]
        idx == SelectSeq(all, LAMBDA q : q[1] < q[2])
    IN  [x \in 1 .. Len(idx) |-> <<hosts[idx[x][1]], hosts[idx[x][2]]>>]

\* list(itertools.permutations(hosts, 2)): the pairs of elements at two
\* different positions, in the order of the positions
permutations(hosts) ==
    LET n == Len(hosts)
        all == [x \in 1 .. n * n |-> <<((x - 1) \div n) + 1, ((x - 1) % n) + 1>>]
        idx == SelectSeq(all, LAMBDA q : q[1] # q[2])
    IN  [x \in 1 .. Len(idx) |-> <<hosts[idx[x][1]], hosts[idx[x][2]]>>]

\* the host lists handed to run_mesh_ping: two or three different endpoints
MeshHosts == {hs \in UNION {[1 .. n -> EPs] : n \in 2 .. 3} :
                 \A i, k \in DOMAIN hs : i # k => hs[i] # hs[k]}

\* run_mesh_ping(hosts, dst_port, protocol) with the default duration: one
\* intent per ordered pair under one fresh reqid, registered in one call
RunMeshPing(hosts, dst_port, protocol, phased) ==
    LET reqid == UuidStr(uuids + 1)
        host_pairs == permutations(hosts)
        intents == [x \in 1 .. Len(host_pairs) |->
                       create_traffic_intent(host_pairs[x][1], host_pairs[x][2],
                                             dst_port, protocol, reqid, uuids + x)]
    IN  /\ uuids + 1 + Len(host_pairs) <= MaxUuids
        /\ RegisterIntents(intents, reqid, phased, "run_mesh_ping", hosts,
                           1 + Len(host_pairs))

\* the calls whose jobs open a session to the job's host and make one remote call
RemoteOps ==
    {"register", "start_traffic", "stop_traffic", "get_results", "get_traffic_stats",
     "get_latency"}

\* a ThreadPool worker takes a job: `with LydianClient(host) as client` opens
\* the session and the remote call is issued, or the host cannot be reached
JobStart(j) ==
    /\ op \in RemoteOps
    /\ j \in DOMAIN jobs
    /\ jobs[j].state = "queued"
    /\ \/ /\ j[2] \in Hosts
          /\ jobs' = [jobs EXCEPT ![j].state = "running", ![j].opened = @ + 1,
                                  ![j].open = @ + 1]
       \/ jobs' = [jobs EXCEPT ![j].state = "raised"]
    /\ UNCHANGED <<ep_hosts, rules, uuids, recs, op, pc, loc, tp_results>>
    /\ UNCHANGED <<samplerVars, recorderVars>>

\* the next ThreadPool call of register_traffic, made when the previous one
\* has returned
RegisterNextPass ==
    /\ op = "register"
    /\ pc = "dispatch"
    /\ PoolDone
    /\ loc.plan # <<>>
    /\ jobs' = Submit(jobs, Head(loc.plan))
    /\ loc' = [loc EXCEPT !.plan = Tail(@)]
    /\ tp_results' = <<>>
    /\ UNCHANGED <<ep_hosts, rules, uuids, recs, op, pc>>
    /\ UNCHANGED <<samplerVars, recorderVars>>

\* a registration that gives up the local persist when a host's call failed
RegisterPersistM ==
    /\ op = "register"
    /\ pc = "dispatch"
    /\ PoolDone
    /\ loc.plan = <<>>
    /\ rules' = IF \E j \in DOMAIN jobs : jobs[j].state = "raised"
                  THEN rules ELSE add_rules(rules, loc.trules)
    /\ pc' = "done"
    /\ UNCHANGED <<ep_hosts, uuids, recs, op, loc, jobs, tp_results>>
    /\ UNCHANGED <<samplerVars, recorderVars>>

\* self.rules_app.add_rules(_trules), after the last ThreadPool call
RegisterPersist ==
    /\ op = "register"
    /\ pc = "dispatch"
    /\ PoolDone
    /\ loc.plan = <<>>
    /\ rules' = add_rules(rules, loc.trules)
    /\ pc' = "done"
    /\ UNCHANGED <<ep_hosts, uuids, recs, op, loc, jobs, tp_results>>
    /\ UNCHANGED <<samplerVars, recorderVars>>

\* the call returns to the operator; its locals are gone
Return ==
    /\ pc = "done"
    /\ op' = "idle"
    /\ pc' = "idle"
    /\ loc' = NoLoc
    /\ jobs' = EmptyMap
    /\ tp_results' = <<>>
    /\ UNCHANGED <<ep_hosts, rules, uuids, recs>>
    /\ UNCHANGED <<samplerVars, recorderVars>>

(***************************************************************************)
(* Part 4.  Podium: result and latency aggregation.                        *)
(***************************************************************************)
\* rows held by the agents' record stores over a run
MaxRecords == 2

\* the fields of a TrafficRecord, in the order of a stored row
TrafficRecordFields ==
    <<"source", "destination", "protocol", "port", "result", "reqid", "ruleid",
      "latency", "timestamp">>

\* TrafficRecordDB.SCHEMA: the keys Results.traffic accepts as filters
SCHEMA == {TrafficRecordFields[i] : i \in 1 .. Len(TrafficRecordFields)}

Field(row, name) ==
    row[CHOOSE i \in 1 .. Len(TrafficRecordFields) : TrafficRecordFields[i] = name]

\* the row an agent stores for one probe of a rule
RecordOf(rule, result) ==
    <<rule.src, rule.dst, rule.protocol, rule.port, result, rule.reqid,
      rule.ruleid, 10, 0>>

\* how the record store compares a stored field with a filter value: the
\* boolean result is matched by '1' and '0'
FieldMatches(row, key, value) ==
    IF key = "result" THEN Field(row, key) = (value = "1")
    ELSE Field(row, key) = value

\* db.read(tbl=db.TABLE, reqid=reqid, **_filter)
db_read(rows, reqid, _filter) ==
    LET keep(row) == /\ Field(row, "reqid") = reqid
                     /\ \A k \in DOMAIN _filter : FieldMatches(row, k, _filter[k])
    IN  SelectSeq(rows, keep)

\* Results.traffic(reqid, **kwargs) on the agent of host h
traffic(h, reqid, kwargs) ==
    LET _filter == [k \in DOMAIN kwargs \cap SCHEMA |-> kwargs[k]]
    IN  db_read(recs[h], reqid, _filter)

\* what results.get_latency_stat(reqid, method) of an agent may answer: a
\* number, held in thousandths as <<n>> (10.0, 20.0 and 1.234), or None, held
\* as <<>>, when it has no matching record
LatencyStats == {<<>>, <<10000>>, <<20000>>, <<1234>>}

Methods == {"avg", "min", "max", "bogus"}

\* Podium.get_rules_by_reqid
get_rules_by_reqid(reqid) == {rules[id] : id \in {i \in DOMAIN rules : rules[i].reqid = reqid}}

\* the hosts of the rules' destinations
HostsOfReqM(reqid) == {get_ep_host(rule.dst) : rule \in get_rules_by_reqid(reqid)}

\* hostips = set([self.get_ep_host(rule.src) for rule in trules if rule.src])
HostsOfReq(reqid) == {get_ep_host(rule.src) : rule \in get_rules_by_reqid(reqid)}

\* what the remote call of job j returns
RemoteResults(j) ==
    CASE op = "register" -> {None}
      [] op \in {"get_results", "get_traffic_stats"} ->
             {traffic(j[2], jobs[j].args.reqid, jobs[j].args.kwargs)}
      [] op = "get_latency" -> LatencyStats
      [] OTHER -> {None}

\* a job whose session is released only when the remote call returns
JobFinishM(j) ==
    /\ op \in RemoteOps
    /\ j \in DOMAIN jobs
    /\ jobs[j].state = "running"
    /\ \/ \E res \in RemoteResults(j) :
            /\ jobs' = [jobs EXCEPT ![j].state = "returned", ![j].open = @ - 1]
            /\ tp_results' = Append(tp_results, [key |-> j[2], val |-> res])
       \/ /\ jobs' = [jobs EXCEPT ![j].state = "raised"]
          /\ tp_results' = tp_results
    /\ UNCHANGED <<ep_hosts, rules, uuids, recs, op, pc, loc>>
    /\ UNCHANGED <<samplerVars, recorderVars>>

\* the remote call of a job returns and the with statement releases the
\* session: ThreadPool stores the result under the host; or the call raises,
\* the with statement releases the session and ThreadPool logs the error
JobFinish(j) ==
    /\ op \in RemoteOps
    /\ j \in DOMAIN jobs
    /\ jobs[j].state = "running"
    /\ \/ \E res \in RemoteResults(j) :
            /\ jobs' = [jobs EXCEPT ![j].state = "returned", ![j].open = @ - 1]
            /\ tp_results' = Append(tp_results, [key |-> j[2], val |-> res])
       \/ /\ jobs' = [jobs EXCEPT ![j].state = "raised", ![j].open = @ - 1]
          /\ tp_results' = tp_results
    /\ UNCHANGED <<ep_hosts, rules, uuids, recs, op, pc, loc>>
    /\ UNCHANGED <<samplerVars, recorderVars>>

RECURSIVE StoredRows(_)
\* the number of rows held by the record stores of the hosts hs
StoredRows(hs) ==
    IF hs = {} THEN 0
    ELSE LET h == CHOOSE x \in hs : TRUE IN Len(recs[h]) + StoredRows(hs \ {h})

\* an agent stores the outcome of one probe of a rule it runs as client
AgentRecord(h, id, result) ==
    /\ op = "idle"
    /\ id \in DOMAIN rules
    /\ get_ep_host(rules[id].src) = h
    /\ StoredRows(Hosts) < MaxRecords
    /\ recs' = [recs EXCEPT ![h] = Append(@, RecordOf(rules[id], result))]
    /\ UNCHANGED <<ep_hosts, rules, uuids, op, pc, loc, jobs, tp_results>>
    /\ UNCHANGED <<samplerVars, recorderVars>>

RECURSIVE Extend(_)
\* results = []; for _, val in _results.items(): results.extend(val)
Extend(_results) ==
    IF _results = <<>> THEN <<>> ELSE Head(_results).val \o Extend(Tail(_results))

Keys(_results) == {_results[i].key : i \in 1 .. Len(_results)}

_get_resultsM(hostips, _results) ==
    IF hostips \subseteq Keys(_results)
      THEN [raised |-> FALSE, value |-> Extend(_results)]
      ELSE [raised |-> TRUE, value |-> <<>>]

\* Podium._get_results, after its ThreadPool call: the concatenation of the
\* values of the mapping ThreadPool returned
_get_results(hostips, _results) == [raised |-> FALSE, value |-> Extend(_results)]

FetchJobs(role, hostips, reqid, kwargs) ==
    [j \in {<<role, h>> : h \in hostips} |-> Job("waiting", [reqid |-> reqid, kwargs |-> kwargs])]

\* get_results(reqid): one fetch job per host owning a rule of reqid
GetResults(reqid) ==
    /\ op = "idle"
    /\ LET hostips == HostsOfReq(reqid)
           js == FetchJobs("fetch", hostips, reqid, EmptyMap)
       IN  /\ loc' = [NoLoc EXCEPT !.reqid = reqid, !.hostips = hostips]
           /\ jobs' = Submit(js, DOMAIN js)
    /\ op' = "get_results"
    /\ pc' = "dispatch"
    /\ tp_results' = <<>>
    /\ UNCHANGED <<ep_hosts, rules, uuids, recs>>
    /\ UNCHANGED <<samplerVars, recorderVars>>

\* get_results: ThreadPool has returned, the per-host results are concatenated
ResultsCollect ==
    /\ op = "get_results"
    /\ pc = "dispatch"
    /\ PoolDone
    /\ LET r == _get_results(loc.hostips, tp_results)
       IN  loc' = [loc EXCEPT !.ret = r.value, !.raised = r.raised]
    /\ pc' = "done"
    /\ UNCHANGED <<ep_hosts, rules, uuids, recs, op, jobs, tp_results>>
    /\ UNCHANGED <<samplerVars, recorderVars>>

RECURSIVE SumLen(_)
\* for host_pass_record in pass_records: stats['success'] += len(host_pass_record)
SumLen(records) ==
    IF records = <<>> THEN 0 ELSE Len(Head(records)) + SumLen(Tail(records))

\* get_traffic_stats(reqid): get_results(reqid, result='1') is dispatched; the
\* jobs of get_results(reqid, result='0') wait for it to return
StatsCall(reqid, caller) ==
    /\ op = "idle"
    /\ LET hostips == HostsOfReq(reqid)
           pass == FetchJobs("pass", hostips, reqid, [result |-> "1"])
           fail == FetchJobs("fail", hostips, reqid, [result |-> "0"])
           js == [j \in DOMAIN pass \cup DOMAIN fail |->
                     IF j \in DOMAIN pass THEN pass[j] ELSE fail[j]]
       IN  /\ loc' = [NoLoc EXCEPT !.reqid = reqid, !.hostips = hostips,
                                   !.plan = <<DOMAIN fail>>, !.caller = caller]
           /\ jobs' = Submit(js, DOMAIN pass)
    /\ op' = "get_traffic_stats"
    /\ pc' = "dispatch"
    /\ tp_results' = <<>>
    /\ UNCHANGED <<ep_hosts, rules, uuids, recs>>
    /\ UNCHANGED <<samplerVars, recorderVars>>

\* get_traffic_stats(reqid) called by the operator
GetTrafficStats(reqid) == StatsCall(reqid, None)

\* pass_records is back: get_results(reqid, result='0') is dispatched
StatsNextQuery ==
    /\ op = "get_traffic_stats"
    /\ pc = "dispatch"
    /\ PoolDone
    /\ loc.plan # <<>>
    /\ LET r == _get_results(loc.hostips, tp_results)
       IN  IF r.raised
             THEN /\ loc' = [loc EXCEPT !.raised = TRUE]
                  /\ pc' = "done"
                  /\ UNCHANGED <<jobs, tp_results>>
             ELSE /\ loc' = [loc EXCEPT !.acc = r.value, !.plan = Tail(@)]
                  /\ jobs' = Submit(jobs, Head(loc.plan))
                  /\ tp_results' = <<>>
                  /\ pc' = pc
    /\ UNCHANGED <<ep_hosts, rules, uuids, recs, op>>
    /\ UNCHANGED <<samplerVars, recorderVars>>

\* fail_records is back: the two sums are taken and returned
StatsReturn ==
    /\ op = "get_traffic_stats"
    /\ pc = "dispatch"
    /\ PoolDone
    /\ loc.plan = <<>>
    /\ LET r == _get_results(loc.hostips, tp_results)
       IN  IF r.raised
             THEN /\ loc' = [loc EXCEPT !.raised = TRUE]
                  /\ pc' = "done"
             ELSE /\ loc' = [loc EXCEPT !.ret = [success |-> SumLen(loc.acc),
                                                 failure |-> SumLen(r.value)]]
                  /\ pc' = IF loc.caller = None THEN "done" ELSE "percent"
    /\ UNCHANGED <<ep_hosts, rules, uuids, recs, op, jobs, tp_results>>
    /\ UNCHANGED <<samplerVars, recorderVars>>

\* round(num / den, 2) for num in thousandths; the value is held in
\* hundredths (a tie goes to the even hundredth)
Round2(num, den) ==
    LET q == num \div (den * 10)
        r == num % (den * 10)
    IN  IF 2 * r > den * 10 THEN q + 1
        ELSE IF 2 * r = den * 10 THEN q + (q % 2)
        ELSE q

\* get_traffic_pass_percent / get_traffic_fail_percent call get_traffic_stats
GetTrafficPercent(reqid, caller) == StatsCall(reqid, caller)

\* a fail percent that is 0 when there is no record
get_traffic_fail_percentM(stats) ==
    LET total == stats.success + stats.failure
    IN  IF total # 0 THEN Round2(stats.failure * 100 * 1000, total) ELSE 0

\* round(stats['success'] * 100 / total, 2) if total else 0, in hundredths
get_traffic_pass_percent(stats) ==
    LET total == stats.success + stats.failure
    IN  IF total # 0 THEN Round2(stats.success * 100 * 1000, total) ELSE 0

\* round(stats['failure'] * 100 / total, 2) if total else 100, in hundredths
get_traffic_fail_percent(stats) ==
    LET total == stats.success + stats.failure
    IN  IF total # 0 THEN Round2(stats.failure * 100 * 1000, total) ELSE 100 * 100

\* get_traffic_stats has returned to get_traffic_pass_percent or
\* get_traffic_fail_percent, which returns the percentage
PercentReturn ==
    /\ op = "get_traffic_stats"
    /\ pc = "percent"
    /\ loc' = [loc EXCEPT !.stats = loc.ret,
                          !.ret = IF loc.caller = "get_traffic_pass_percent"
                                    THEN get_traffic_pass_percent(loc.ret)
                                    ELSE get_traffic_fail_percent(loc.ret)]
    /\ pc' = "done"
    /\ UNCHANGED <<ep_hosts, rules, uuids, recs, op, jobs, tp_results>>
    /\ UNCHANGED <<samplerVars, recorderVars>>

RECURSIVE Sum(_)
Sum(seq) == IF seq = <<>> THEN 0 ELSE Head(seq) + Sum(Tail(seq))

SeqMin(seq) == CHOOSE x \in {seq[i] : i \in 1 .. Len(seq)} :
                   \A i \in 1 .. Len(seq) : x <= seq[i]

SeqMax(seq) == CHOOSE x \in {seq[i] : i \in 1 .. Len(seq)} :
                   \A i \in 1 .. Len(seq) : x >= seq[i]

\* latencies = [latency for latency in results.values()]
Values(_results) == [i \in 1 .. Len(_results) |-> _results[i].val]

\* a reduction that keeps the absent values, counted as 0
ReduceLatenciesM(latencies, method) ==
    LET kept == [i \in 1 .. Len(latencies) |->
                    IF latencies[i] = <<>> THEN 0 ELSE latencies[i][1]]
    IN  IF Len(kept) = 0 THEN [value |-> 0, invalid |-> FALSE]
        ELSE CASE method = "avg" -> [value |-> Round2(Sum(kept), Len(kept)), invalid |-> FALSE]
               [] method = "min" -> [value |-> Round2(SeqMin(kept), 1), invalid |-> FALSE]
               [] method = "max" -> [value |-> Round2(SeqMax(kept), 1), invalid |-> FALSE]
               [] OTHER -> [value |-> 0, invalid |-> TRUE]

\* get_latency after _get_latencies: the None values are dropped and the
\* rest is reduced with method; the value is held in hundredths
ReduceLatencies(latencies, method) ==
    LET given == SelectSeq(latencies, LAMBDA x : x # <<>>)
        kept == [i \in 1 .. Len(given) |-> given[i][1]]
    IN  IF Len(kept) = 0 THEN [value |-> 0, invalid |-> FALSE]
        ELSE CASE method = "avg" -> [value |-> Round2(Sum(kept), Len(kept)), invalid |-> FALSE]
               [] method = "min" -> [value |-> Round2(SeqMin(kept), 1), invalid |-> FALSE]
               [] method = "max" -> [value |-> Round2(SeqMax(kept), 1), invalid |-> FALSE]
               [] OTHER -> [value |-> 0, invalid |-> TRUE]

\* get_latency(reqid, method): one get_host_latency job per host owning a
\* rule of reqid
GetLatency(reqid, method) ==
    /\ op = "idle"
    /\ LET hostips == HostsOfReq(reqid)
           js == FetchJobs("latency", hostips, reqid, EmptyMap)
       IN  /\ loc' = [NoLoc EXCEPT !.reqid = reqid, !.hostips = hostips,
                                   !.method = method]
           /\ jobs' = Submit(js, DOMAIN js)
    /\ op' = "get_latency"
    /\ pc' = "dispatch"
    /\ tp_results' = <<>>
    /\ UNCHANGED <<ep_hosts, rules, uuids, recs>>
    /\ UNCHANGED <<samplerVars, recorderVars>>

\* get_latency: ThreadPool has returned, the per-host values are reduced
LatencyReduce ==
    /\ op = "get_latency"
    /\ pc = "dispatch"
    /\ PoolDone
    /\ loc' = [loc EXCEPT !.ret = ReduceLatencies(Values(tp_results), loc.method)]
    /\ pc' = "done"
    /\ UNCHANGED <<ep_hosts, rules, uuids, recs, op, jobs, tp_results>>
    /\ UNCHANGED <<samplerVars, recorderVars>>

\* host_rules keyed by the host owning the rule's destination
HostRuleIdsM(reqid) ==
    LET ids == {id \in DOMAIN rules : rules[id].reqid = reqid}
        of(h) == {id \in ids : get_ep_host(rules[id].dst) = h}
        RECURSIVE Sorted(_)
        Sorted(S) == IF S = {} THEN <<>>
                     ELSE LET m == CHOOSE x \in S : \A y \in S : x <= y
                          IN  <<m>> \o Sorted(S \ {m})
    IN  [h \in {get_ep_host(rules[id].dst) : id \in ids} |-> Sorted(of(h))]

\* host_rules of _traffic_op: the rule ids of the reqid per host owning the
\* rule's source, in the order of the rule store
HostRuleIds(reqid) ==
    LET ids == {id \in DOMAIN rules : rules[id].reqid = reqid}
        of(h) == {id \in ids : get_ep_host(rules[id].src) = h}
        RECURSIVE Sorted(_)
        Sorted(S) == IF S = {} THEN <<>>
                     ELSE LET m == CHOOSE x \in S : \A y \in S : x <= y
                          IN  <<m>> \o Sorted(S \ {m})
    IN  [h \in {get_ep_host(rules[id].src) : id \in ids} |-> Sorted(of(h))]

\* _traffic_op(reqid, op_type), called by start_traffic and stop_traffic: one
\* job per host of host_rules is handed to ThreadPool
TrafficOp(reqid, op_type) ==
    /\ op = "idle"
    /\ op_type \in {"start", "stop"}
    /\ LET host_rules == HostRuleIds(reqid)
           js == [j \in {<<op_type, h>> : h \in DOMAIN host_rules} |->
                     Job("waiting", host_rules[j[2]])]
       IN  /\ loc' = [NoLoc EXCEPT !.reqid = reqid, !.hostips = DOMAIN host_rules,
                                   !.method = op_type]
           /\ jobs' = Submit(js, DOMAIN js)
    /\ op' = IF op_type = "start" THEN "start_traffic" ELSE "stop_traffic"
    /\ pc' = "dispatch"
    /\ tp_results' = <<>>
    /\ UNCHANGED <<ep_hosts, rules, uuids, recs>>
    /\ UNCHANGED <<samplerVars, recorderVars>>

\* ThreadPool has returned: _traffic_op returns
TrafficOpReturn ==
    /\ op \in {"start_traffic", "stop_traffic"}
    /\ pc = "dispatch"
    /\ PoolDone
    /\ pc' = "done"
    /\ UNCHANGED <<ep_hosts, rules, uuids, recs, op, loc, jobs, tp_results>>
    /\ UNCHANGED <<samplerVars, recorderVars>>

RemoteJobs ==
    {"server", "client", "merged", "start", "stop", "fetch", "pass", "fail", "latency"}
        \X (Hosts \cup {None})

\* start_traffic(reqid) and stop_traffic(reqid)
TrafficStep ==
    \/ \E reqid \in ReqIds, op_type \in {"start", "stop"} : TrafficOp(reqid, op_type)
    \/ TrafficOpReturn

\* get_results(reqid)
FetchStep ==
    \/ \E reqid \in ReqIds : GetResults(reqid)
    \/ ResultsCollect

\* the pairs registered in the runs that query results: probes between the
\* two hosts, and one from an endpoint an agent reports
QueryPairs == {<<"h1", "h2">>, <<"h2", "h1">>, <<"ip1", "h2">>}

\* register_traffic and the steps of its jobs, for batches over the pairs
RegisterWith(pairs) ==
    \/ \E batch \in Batches(pairs, MaxBatch), reqid \in ReqIds, phased \in BOOLEAN :
          RegisterTraffic(batch, reqid, phased)
    \/ \E j \in RemoteJobs : JobStart(j)
    \/ \E j \in RemoteJobs : JobFinish(j)
    \/ RegisterNextPass
    \/ RegisterPersist
    \/ Return

RegisterStep == RegisterWith(AllPairs)

\* run_traffic and run_mesh_ping, and the steps of the registration they make
RunStep ==
    \/ \E p \in QueryPairs, protocol \in Protocols, phased \in BOOLEAN :
          RunTraffic(p[1], p[2], 5000, protocol, phased)
    \/ \E hosts \in MeshHosts, phased \in BOOLEAN :
          RunMeshPing(hosts, 5000, "TCP", phased)
    \/ \E j \in RemoteJobs : JobStart(j)
    \/ \E j \in RemoteJobs : JobFinish(j)
    \/ RegisterNextPass
    \/ RegisterPersist
    \/ Return

ResultsStep ==
    \/ \E h \in Hosts, id \in 1 .. MaxRules, result \in BOOLEAN : AgentRecord(h, id, result)
    \/ \E reqid \in ReqIds : GetResults(reqid)
    \/ ResultsCollect
    \/ \E reqid \in ReqIds : GetTrafficStats(reqid)
    \/ StatsNextQuery
    \/ StatsReturn

LatencyStep ==
    \/ \E reqid \in ReqIds, method \in Methods : GetLatency(reqid, method)
    \/ LatencyReduce

\* the agents record probes; pass and fail percentages are queried
PercentStep ==
    \/ \E h \in Hosts, id \in 1 .. MaxRules, result \in BOOLEAN : AgentRecord(h, id, result)
    \/ \E reqid \in ReqIds,
          caller \in {"get_traffic_pass_percent", "get_traffic_fail_percent"} :
          GetTrafficPercent(reqid, caller)
    \/ StatsNextQuery
    \/ StatsReturn
    \/ PercentReturn

(***************************************************************************)
(* Part 5.  Wavefront recorders.                                           *)
(***************************************************************************)
\* write() calls made over a run
MaxWrites == 3

Recorders == {"WavefrontTrafficRecorder", "WavefrontResourceRecorder"}

Params == {"WAVEFRONT_RECORDING", "WAVEFRONT_TRAFFIC_RECORDING",
           "WAVEFRONT_RESOURCE_RECORDING"}

ENABLE_PARAMM(r) == "WAVEFRONT_RECORDING"

\* the class attribute ENABLE_PARAM of the recorder's class
ENABLE_PARAM(r) ==
    IF r = "WavefrontTrafficRecorder" THEN "WAVEFRONT_TRAFFIC_RECORDING"
    ELSE "WAVEFRONT_RESOURCE_RECORDING"

\* core.Subscribe.get_config: the parameter's value in the live configuration
get_config(param) == config[param]

\* WavefrontRecorder.enabled
wf_enabled(r) == get_config(ENABLE_PARAM(r))

\* the records the pipeline drain hands to a recorder: a TrafficRecord of a
\* protocol, or a ResourceRecord as the items of as_dict()
RecordsFor(r) ==
    IF r = "WavefrontTrafficRecorder"
      THEN {[protocol |-> p, result |-> b] : p \in {"TCP", "UDP"}, b \in BOOLEAN}
      ELSE {[as_dict |-> <<"_id", "cpu", "_timestamp", "memory">>]}

\* the names of the metrics write(record) sends, in order: <prefix>.result
\* and <prefix>.latency of a traffic record; prefix + key for every key of a
\* resource record but '_id' and '_timestamp'
Metrics(r, record) ==
    IF r = "WavefrontTrafficRecorder"
      THEN <<<<"lydian.traffic." \o record.protocol, ".result">>,
             <<"lydian.traffic." \o record.protocol, ".latency">>>>
      ELSE LET keys == SelectSeq(record.as_dict,
                                 LAMBDA key : key \notin {"_id", "_timestamp"})
           IN  [i \in 1 .. Len(keys) |-> <<"lydian.resources.", keys[i]>>]

RecorderInit ==
    /\ config = [param \in Params |-> FALSE]
    /\ wpc = "idle"
    /\ wtodo = <<>>
    /\ wlog = <<>>

\* configs.set_param: the operator changes a parameter of the live
\* configuration
SetParam(param, val) ==
    /\ config[param] # val
    /\ config' = [config EXCEPT ![param] = val]
    /\ UNCHANGED <<wpc, wtodo, wlog>>
    /\ UNCHANGED <<samplerVars, podiumVars>>

\* the current write() call, the last of wlog
ThisWrite == Len(wlog)

\* write(record), lines 44-45 and 81-82: `if not self.enabled: return`
Write(r, record) ==
    /\ wpc = "idle"
    /\ Len(wlog) < MaxWrites
    /\ LET en == wf_enabled(r)
       IN  /\ wlog' = Append(wlog, [recorder |-> r, record |-> record, enabled |-> en,
                                    sent |-> <<>>,
                                    outcome |-> IF en THEN "running" ELSE "returned"])
           /\ wpc' = IF en THEN "send" ELSE "idle"
           /\ wtodo' = IF en THEN Metrics(r, record) ELSE <<>>
    /\ UNCHANGED config
    /\ UNCHANGED <<samplerVars, podiumVars>>

\* self._client.send_metric(...): the metric is sent, or the call raises and
\* the exception leaves write()
WriteSend ==
    /\ wpc = "send"
    /\ wtodo # <<>>
    /\ \/ /\ wlog' = [wlog EXCEPT ![ThisWrite].sent = Append(@, Head(wtodo))]
          /\ wtodo' = Tail(wtodo)
          /\ wpc' = wpc
       \/ /\ wlog' = [wlog EXCEPT ![ThisWrite].outcome = "raised"]
          /\ wtodo' = <<>>
          /\ wpc' = "idle"
    /\ UNCHANGED config
    /\ UNCHANGED <<samplerVars, podiumVars>>

\* write() returns after its last send_metric call
WriteReturn ==
    /\ wpc = "send"
    /\ wtodo = <<>>
    /\ wlog' = [wlog EXCEPT ![ThisWrite].outcome = "returned"]
    /\ wpc' = "idle"
    /\ UNCHANGED <<config, wtodo>>
    /\ UNCHANGED <<samplerVars, podiumVars>>

RecorderStep ==
    \/ \E param \in Params, val \in BOOLEAN : SetParam(param, val)
    \/ \E r \in Recorders : \E record \in RecordsFor(r) : Write(r, record)
    \/ WriteSend
    \/ WriteReturn

(***************************************************************************)
(* Specifications.                                                         *)
(***************************************************************************)
SamplerCall(c) ==
    \/ CallStop(c) \/ Stop90(c) \/ Stop91(c) \/ Stop92(c) \/ StopJoin(c)
    \/ Stop93(c) \/ Stop94(c)
    \/ CallStart(c) \/ Start100(c) \/ Start101(c) \/ Start102(c) \/ Start104(c)
    \/ Start105(c)

SamplerThread(t) == PingCheck(t) \/ PingPut(t) \/ PingSleep(t)

vars == <<samplerVars, podiumVars, recorderVars>>

Init == SamplerInit /\ PodiumInit /\ RecorderInit

\* one caller drives start() / stop(); the background thread and the
\* consumer run concurrently with it
NextSampler ==
    \/ SamplerCall(1)
    \/ \E t \in Threads : SamplerThread(t)
    \/ Dequeue

SpecSampler == Init /\ [][NextSampler]_vars

\* the same, with the background threads scheduled fairly: a thread that can
\* take a step eventually takes one
SpecSamplerFair ==
    Init /\ [][NextSampler]_vars /\ \A t \in Threads : WF_vars(SamplerThread(t))

\* two remote callers drive start() / stop() of the one sampler at the same
\* time, their lines interleaved in any order; the consumer of the queue,
\* which touches neither the stop signal nor the thread handle, is not
\* scheduled
NextSamplerConcurrent ==
    \/ \E c \in Callers : SamplerCall(c)
    \/ \E t \in Threads : SamplerThread(t)

SpecSamplerConcurrent == Init /\ [][NextSamplerConcurrent]_vars


\* the pipeline drain hands records to the recorders while the operator
\* changes the live configuration
NextRecorder == RecorderStep

SpecRecorder == Init /\ [][NextRecorder]_vars

\* the coordinator registers hosts; the add_host jobs of one add_hosts call
\* run concurrently
NextRegistry == RegistryStep

SpecRegistry == Init /\ [][NextRegistry]_vars

\* the coordinator registers hosts and registers traffic, one call at a time
NextRegister == RegistryStep \/ RegisterStep

SpecRegister == Init /\ [][NextRegister]_vars

\* the coordinator registers hosts and runs single probes and mesh tests
NextRun == RegistryStep \/ RunStep

SpecRun == Init /\ [][NextRun]_vars

\* the coordinator also queries results and statistics, while the agents
\* record the probes of the registered rules
NextResults == RegistryStep \/ RegisterWith(QueryPairs) \/ ResultsStep

SpecResults == Init /\ [][NextResults]_vars

\* the coordinator also queries latencies
NextLatency == RegistryStep \/ RegisterWith(QueryPairs) \/ LatencyStep

SpecLatency == Init /\ [][NextLatency]_vars

\* the coordinator also queries pass and fail percentages
NextPercent == RegistryStep \/ RegisterWith(QueryPairs) \/ PercentStep

SpecPercent == Init /\ [][NextPercent]_vars

\* every call that dispatches per-host operations: registration, start and
\* stop, result fetch and latency fetch
NextDispatch ==
    RegistryStep \/ RegisterWith(QueryPairs) \/ TrafficStep \/ FetchStep \/ LatencyStep

SpecDispatch == Init /\ [][NextDispatch]_vars

\* every aggregation call: results, statistics and latencies
NextAggregate == RegistryStep \/ RegisterWith(QueryPairs) \/ ResultsStep \/ LatencyStep

SpecAggregate == Init /\ [][NextAggregate]_vars

---------------------------------------------------------------------------
\* Claims about the sampler, checked under SpecSampler

\* a call by caller c has returned and c has made no later call
Returned(c, call) == cpc[c] = "idle" /\ last[c] = call

\* C3: when stop() returns, the stop signal is set, the background sampling
\* task has terminated and the task handle has been released (is None),
\* whatever the scheduling of the background task relative to stop()
C3_StopReleasesTask ==
    \A c \in Callers :
        Returned(c, "stop") => stop_switch /\ AliveThreads = {} /\ thread = 0

\* C4: when start() returns from a call made on a sampler that was not
\* running, the stop signal is clear and is_running() is true
C4_StartAlwaysLaunches ==
    \A c \in Callers :
        (Returned(c, "start") /\ ~cpre[c].running) => ~stop_switch /\ is_running

\* C5: start() on a running sampler and stop() on a stopped sampler leave
\* is_running() as it was, create no sampling task and terminate none
C5_IdempotentCalls ==
    \A c \in Callers :
        /\ (Returned(c, "start") /\ cpre[c].running) =>
               /\ is_running
               /\ CreatedThreads = cpre[c].created
               /\ AliveThreads = cpre[c].alive
        /\ (Returned(c, "stop") /\ ~cpre[c].running) =>
               /\ ~is_running
               /\ CreatedThreads = cpre[c].created
               /\ AliveThreads = cpre[c].alive

\* start() has returned from a call made while the sampling loop was alive
C5_Witness ==
    \E c \in Callers :
        Returned(c, "start") /\ cpre[c].running /\ cpre[c].alive # {}

\* C6: the queue never holds more than its capacity; with no dequeue so far,
\* exactly attempts - capacity records were dropped (none while attempts do
\* not exceed the capacity), one error was logged per drop, and no sampling
\* loop ended because of a drop
C6_QueueBackpressure ==
    /\ Len(rqueue) <= QueueCap
    /\ dequeued = 0 =>
           /\ dropped = Max(0, attempts - QueueCap)
           /\ Len(rqueue) = Min(attempts, QueueCap)
    /\ errlog = dropped
    /\ crashed = {}

\* more enqueues than the capacity were attempted with no dequeue, records
\* were dropped, and the loop that dropped them is still alive
C6_Witness ==
    /\ dequeued = 0
    /\ attempts > QueueCap
    /\ dropped >= 2
    /\ AliveThreads # {}

---------------------------------------------------------------------------
\* Claims about the endpoint registry, checked under SpecRegistry

\* C7: the endpoint registry is append-only with no re-homing: an endpoint
\* IP that maps to a host maps to that same host in every later state,
\* also when a host's agent reports an IP another host already reported
C7_NoRehoming ==
    [][\A ip \in DOMAIN ep_hosts :
          ip \in DOMAIN ep_hosts' /\ ep_hosts'[ip] = ep_hosts[ip]]_vars

---------------------------------------------------------------------------
\* Claims about rule registration, checked under SpecRegister

Range(seq) == {seq[i] : i \in 1 .. Len(seq)}

Finished(j) == jobs[j].state \in {"returned", "raised"}

\* the registration call of job j has been issued to its host
Issued(j) == jobs[j].state \in {"running", "returned", "raised"}

\* the intent names an endpoint no host owns
Unresolved(rule) == get_ep_host(rule.src) = None \/ get_ep_host(rule.dst) = None

\* C1: in phased mode every registration call to a server-side (destination)
\* host has returned, successfully or with a failure, before any registration
\* call to a client-side (source) host is handed to the pool or issued
C1_ServersBeforeClients ==
    (op = "register" /\ loc.phased) =>
        \A c \in DOMAIN jobs :
            (c[1] = "client" /\ jobs[c].state # "waiting") =>
                \A sv \in DOMAIN jobs : sv[1] = "server" => Finished(sv)

\* a client-side call is running after one server-side call returned and
\* another one failed
C1_Witness ==
    /\ op = "register"
    /\ loc.phased
    /\ \E c \in DOMAIN jobs : c[1] = "client" /\ jobs[c].state = "running"
    /\ \E sv \in DOMAIN jobs : sv[1] = "server" /\ jobs[sv].state = "returned"
    /\ \E sv \in DOMAIN jobs : sv[1] = "server" /\ jobs[sv].state = "raised"

\* C8: an intent whose source or destination resolves to no host is in no
\* host's registration call and is not added to the rule store; every other
\* intent of the batch is in the call to its destination's host and in the
\* call to its source's host, and is in the rule store once the rules are
\* persisted
C8_UnresolvedSkipped ==
    op = "register" =>
        \A rule \in Range(loc.intent) :
            IF Unresolved(rule)
              THEN /\ \A j \in DOMAIN jobs : rule \notin Range(jobs[j].args)
                   /\ rule.ruleid \notin DOMAIN rules
              ELSE /\ \E j \in DOMAIN jobs :
                         /\ j[1] \in {"server", "merged"}
                         /\ j[2] = get_ep_host(rule.dst)
                         /\ rule \in Range(jobs[j].args)
                   /\ \E j \in DOMAIN jobs :
                         /\ j[1] \in {"client", "merged"}
                         /\ j[2] = get_ep_host(rule.src)
                         /\ rule \in Range(jobs[j].args)
                   /\ pc = "done" =>
                         /\ rule.ruleid \in DOMAIN rules
                         /\ rules[rule.ruleid] = create_traffic_rule(rule)

\* a batch with one unresolved and one resolved intent has been dispatched
\* and persisted
C8_Witness ==
    /\ op = "register"
    /\ pc = "done"
    /\ \E rule \in Range(loc.intent) : Unresolved(rule) /\ get_ep_host(rule.src) # None
    /\ \E rule \in Range(loc.intent) : ~Unresolved(rule)
    /\ \E j \in DOMAIN jobs : jobs[j].state = "returned"

\* the hosts owning the source or the destination of a resolved intent
InvolvedHosts ==
    UNION {{get_ep_host(rule.src), get_ep_host(rule.dst)} :
              rule \in {r \in Range(loc.intent) : ~Unresolved(r)}}

\* C9: in merged mode there is exactly one registration call per involved
\* host, and the rule list sent to a host holds exactly the rules whose
\* destination or source resolves to that host, each exactly once
C9_MergedUnion ==
    (op = "register" /\ ~loc.phased) =>
        /\ DOMAIN jobs = {<<"merged", h>> : h \in InvolvedHosts}
        /\ \A j \in DOMAIN jobs :
              /\ Range(jobs[j].args) =
                     {r \in Range(loc.intent) :
                         /\ ~Unresolved(r)
                         /\ j[2] \in {get_ep_host(r.src), get_ep_host(r.dst)}}
              /\ Len(jobs[j].args) = Cardinality(Range(jobs[j].args))

---------------------------------------------------------------------------
\* Claims about dispatch and aggregation

\* the role of the jobs of the ThreadPool call in progress
CurrentRole ==
    CASE op = "get_results" -> "fetch"
      [] op = "get_latency" -> "latency"
      [] op = "get_traffic_stats" -> IF loc.plan # <<>> THEN "pass" ELSE "fail"
      [] OTHER -> "none"

HostsIn(role, state) ==
    {j[2] : j \in {k \in DOMAIN jobs : k[1] = role /\ jobs[k].state = state}}

\* the rows of host h with the request id, and with the result when given
MatchingRows(h, reqid, results) ==
    {i \in 1 .. Len(recs[h]) :
        /\ Field(recs[h][i], "reqid") = reqid
        /\ Field(recs[h][i], "result") \in results}

RECURSIVE CountRows(_, _, _)
CountRows(hs, reqid, results) ==
    IF hs = {} THEN 0
    ELSE LET h == CHOOSE x \in hs : TRUE
         IN  Cardinality(MatchingRows(h, reqid, results))
               + CountRows(hs \ {h}, reqid, results)

\* C2: a dispatch over hosts of which some are unreachable returns without
\* raising: the result mapping holds exactly one entry per host whose
\* operation completed and none for a host that failed, and the consumers of
\* the mapping (result concatenation, latency reduction) complete without
\* raising, the concatenation holding the rows of exactly the hosts reached
C2_PartialFailureContained ==
    op \in {"get_results", "get_traffic_stats", "get_latency"} =>
        /\ ~loc.raised
        /\ (pc = "dispatch" /\ PoolDone) =>
              /\ Keys(tp_results) = HostsIn(CurrentRole, "returned")
              /\ Len(tp_results) =
                     Cardinality(loc.hostips) - Cardinality(HostsIn(CurrentRole, "raised"))
        /\ (pc = "done" /\ op = "get_results") =>
              Len(loc.ret) = CountRows(HostsIn("fetch", "returned"), loc.reqid, BOOLEAN)
        /\ (pc = "done" /\ op = "get_latency") => loc.ret.value >= 0

\* get_results over two hosts has returned the rows of the host that was
\* reached while the other host's fetch failed
C2_Witness ==
    /\ op = "get_results"
    /\ pc = "done"
    /\ Cardinality(loc.hostips) = 2
    /\ Cardinality(HostsIn("fetch", "raised")) = 1
    /\ Len(loc.ret) >= 1

\* C10: get_traffic_stats returns as success the number of rows with result
\* true and as failure the number of rows with result false, summed over the
\* hosts the rows were fetched from, whatever the number of fields of a row
C10_StatsCountRows ==
    (op = "get_traffic_stats" /\ pc = "done" /\ ~loc.raised) =>
        /\ loc.ret.success = CountRows(HostsIn("pass", "returned"), loc.reqid, {TRUE})
        /\ loc.ret.failure = CountRows(HostsIn("fail", "returned"), loc.reqid, {FALSE})


---------------------------------------------------------------------------
\* Claims about latency reduction, checked under SpecLatency

\* the entries of the ThreadPool mapping whose value is not None
PresentLatencies == {i \in 1 .. Len(tp_results) : tp_results[i].val # <<>>}

\* the value of entry i, in thousandths
LatencyOf(i) == tp_results[i].val[1]

RECURSIVE TotalOf(_)
TotalOf(idx) ==
    IF idx = {} THEN 0
    ELSE LET i == CHOOSE x \in idx : TRUE IN LatencyOf(i) + TotalOf(idx \ {i})

Abs(x) == IF x >= 0 THEN x ELSE 0 - x

LatencyReturned(methods) ==
    op = "get_latency" /\ pc = "done" /\ loc.method \in methods

\* C11 as stated: get_latency drops the absent per-host values and returns
\* exactly the mean, the minimum or the maximum of the remaining ones, and 0
\* when no host produced a value
C11_LatencyReduction ==
    LatencyReturned({"avg", "min", "max"}) =>
        LET P == PresentLatencies
            n == Cardinality(P)
            ret == loc.ret.value * 10
        IN  IF n = 0 THEN ret = 0
            ELSE CASE loc.method = "avg" -> ret * n = TotalOf(P)
                   [] loc.method = "min" ->
                          \E i \in P : /\ \A k \in P : LatencyOf(i) <= LatencyOf(k)
                                       /\ ret = LatencyOf(i)
                   [] loc.method = "max" ->
                          \E i \in P : /\ \A k \in P : LatencyOf(i) >= LatencyOf(k)
                                       /\ ret = LatencyOf(i)

\* C11 as amended: get_latency drops the absent per-host values and returns
\* the mean, the minimum or the maximum of the remaining ones rounded to 2
\* decimals (the hundredth nearest to it), and 0 when no host produced a value
C11_LatencyReductionRounded ==
    LatencyReturned({"avg", "min", "max"}) =>
        LET P == PresentLatencies
            n == Cardinality(P)
            ret == loc.ret.value * 10
        IN  IF n = 0 THEN ret = 0
            ELSE CASE loc.method = "avg" -> 2 * Abs(ret * n - TotalOf(P)) <= 10 * n
                   [] loc.method = "min" ->
                          \E i \in P : /\ \A k \in P : LatencyOf(i) <= LatencyOf(k)
                                       /\ 2 * Abs(ret - LatencyOf(i)) <= 10
                   [] loc.method = "max" ->
                          \E i \in P : /\ \A k \in P : LatencyOf(i) >= LatencyOf(k)
                                       /\ 2 * Abs(ret - LatencyOf(i)) <= 10

\* the average over two hosts, one answering None and one answering 1.234,
\* has been returned as 1.23
C11_Witness ==
    /\ LatencyReturned({"avg"})
    /\ Len(tp_results) = 2
    /\ \E i, k \in 1 .. 2 : tp_results[i].val = <<>> /\ tp_results[k].val = <<1234>>
    /\ loc.ret.value = 123

\* C12: get_latency with a method other than avg, min and max returns 0 and
\* logs the invalid-method error, whatever the per-host values are (also when
\* every value is absent or no host is involved), and does not raise
C12_UnknownMethod ==
    (op = "get_latency" /\ pc = "done" /\ loc.method \notin {"avg", "min", "max"}) =>
        /\ loc.ret.value = 0
        /\ loc.ret.invalid
        /\ ~loc.raised

---------------------------------------------------------------------------
\* Claims about pass and fail percentages, checked under SpecPercent

PercentReturned(caller) ==
    op = "get_traffic_stats" /\ pc = "done" /\ ~loc.raised /\ loc.caller = caller

\* C13: with total = success + failure of get_traffic_stats, the pass percent
\* is success*100/total and the fail percent failure*100/total, rounded to 2
\* decimals, when total > 0; they are 0 and 100 when total = 0
C13_Percent ==
    /\ PercentReturned("get_traffic_pass_percent") =>
          LET total == loc.stats.success + loc.stats.failure
          IN  IF total > 0
                THEN 2 * Abs(loc.ret * total - loc.stats.success * 10000) <= total
                ELSE loc.ret = 0
    /\ PercentReturned("get_traffic_fail_percent") =>
          LET total == loc.stats.success + loc.stats.failure
          IN  IF total > 0
                THEN 2 * Abs(loc.ret * total - loc.stats.failure * 10000) <= total
                ELSE loc.ret = 10000

\* a pass percent of 50.00 has been returned for as many passed as failed
C13_Witness ==
    /\ PercentReturned("get_traffic_pass_percent")
    /\ loc.stats.success > 0
    /\ loc.stats.success = loc.stats.failure
    /\ loc.ret = 5000

---------------------------------------------------------------------------
\* Claims about run_traffic and run_mesh_ping, checked under SpecRun

\* a call of `caller` has registered its intents and is about to return
\* its reqid
RunDone(caller) == op = "register" /\ pc = "done" /\ loc.caller = caller

Resolves(ip) == get_ep_host(ip) # None

\* the rules of the rule store under the reqid of the current call
RulesOfCall == {id \in DOMAIN rules : rules[id].reqid = loc.reqid}

\* C14: run_mesh_ping over n different hosts that all resolve registers
\* exactly n*(n-1) rules, one per ordered pair of different hosts, all under
\* the reqid the call returns and with pairwise different ruleids
C14_MeshRules ==
    LET hosts == loc.args
        n == Len(hosts)
    IN  (/\ RunDone("run_mesh_ping")
         /\ \A i, k \in 1 .. n : i # k => hosts[i] # hosts[k]
         /\ \A i \in 1 .. n : Resolves(hosts[i])) =>
            /\ Cardinality(RulesOfCall) = n * (n - 1)
            /\ Cardinality({rules[id].ruleid : id \in RulesOfCall}) = n * (n - 1)
            /\ \A i, k \in 1 .. n : i # k =>
                   Cardinality({id \in RulesOfCall :
                                   /\ rules[id].src = hosts[i]
                                   /\ rules[id].dst = hosts[k]}) = 1

\* a mesh over three resolving hosts has put 6 rules in the rule store
C14_Witness ==
    /\ RunDone("run_mesh_ping")
    /\ Len(loc.args) = 3
    /\ \A i \in 1 .. 3 : Resolves(loc.args[i])
    /\ Cardinality(RulesOfCall) = 6

\* C15: when run_traffic persists the rule built from its intent (both
\* endpoints resolving), get_rules_by_reqid of its reqid yields one rule with
\* the src, dst, port and protocol the intent was created with, and a ruleid
\* that is set and is the ruleid of no other rule of the rule store
C15_RoundTrip ==
    [][(/\ op = "register" /\ loc.caller = "run_traffic"
        /\ pc = "dispatch" /\ pc' = "done"
        /\ Resolves(loc.args[1]) /\ Resolves(loc.args[2])) =>
           /\ Cardinality(get_rules_by_reqid(loc.reqid)') = 1
           /\ \A r \in get_rules_by_reqid(loc.reqid)' :
                 /\ r.src = loc.args[1]
                 /\ r.dst = loc.args[2]
                 /\ r.port = loc.args[3]
                 /\ r.protocol = loc.args[4]
                 /\ r.ruleid \in 1 .. uuids
                 /\ \A id \in DOMAIN rules : rules[id].ruleid # r.ruleid
                 /\ Cardinality({id \in DOMAIN rules' : rules'[id].ruleid = r.ruleid}) = 1
                 /\ Cardinality(DOMAIN rules') = Cardinality(DOMAIN rules) + 1]_vars

\* run_traffic has registered a rule in a rule store that held another one
C15_Witness ==
    /\ RunDone("run_traffic")
    /\ Resolves(loc.args[1]) /\ Resolves(loc.args[2])
    /\ Cardinality(DOMAIN rules) >= 2
    /\ Cardinality(get_rules_by_reqid(loc.reqid)) = 1

---------------------------------------------------------------------------
\* Claims about the endpoint registry, checked under SpecRegistry

\* C16: add_endpoints for a host that is already a key of the registry is a
\* no-op: the step that finds the host leaves the registry unchanged and
\* returns without an error, having opened no session to the agent
C16_AddEndpointsNoop ==
    [][\A h \in Hosts :
          (/\ AtAddHost(h, "running", "check")
           /\ h \in DOMAIN ep_hosts
           /\ jobs'[AddHostJob(h)] # jobs[AddHostJob(h)]) =>
              /\ ep_hosts' = ep_hosts
              /\ jobs'[AddHostJob(h)].state = "returned"
              /\ jobs'[AddHostJob(h)].opened = 0
              /\ jobs'[AddHostJob(h)].open = 0]_vars

\* add_endpoints has returned for a host found in the registry
C16_Witness ==
    \E h \in Hosts :
        /\ op = "add_hosts"
        /\ AddHostJob(h) \in DOMAIN jobs
        /\ jobs[AddHostJob(h)].state = "returned"
        /\ jobs[AddHostJob(h)].pc = "already"
        /\ h \in DOMAIN ep_hosts
        /\ jobs[AddHostJob(h)].opened = 0

---------------------------------------------------------------------------
\* Claims about the recorders, checked under SpecRecorder

\* C17: write(record) never raises past its own boundary, also when a send
\* to the telemetry backend fails
C17_WriteNeverRaises ==
    \A i \in 1 .. Len(wlog) : wlog[i].outcome # "raised"

\* C18: the enabled flag is read from the live configuration by every
\* write: a write made while the recorder's enable parameter is false sends
\* no metric and returns, a write made while it is true goes on to send, and
\* no write that read the flag as false ever sends a metric
C18_EnabledReRead ==
    [][/\ \A i \in 1 .. Len(wlog') : ~wlog'[i].enabled => wlog'[i].sent = <<>>
       /\ Len(wlog') = Len(wlog) + 1 =>
             LET w == wlog'[Len(wlog')]
                 on == config[IF w.recorder = "WavefrontTrafficRecorder"
                                THEN "WAVEFRONT_TRAFFIC_RECORDING"
                                ELSE "WAVEFRONT_RESOURCE_RECORDING"]
             IN  IF on THEN wpc' = "send" /\ w.outcome = "running"
                 ELSE wpc' = "idle" /\ w.outcome = "returned" /\ w.sent = <<>>]_vars

\* two consecutive writes of one recorder: the first found the parameter
\* false and sent nothing, the parameter was then set and the next write
\* sent its metrics
C18_Witness ==
    /\ Len(wlog) >= 2
    /\ wlog[1].recorder = wlog[2].recorder
    /\ ~wlog[1].enabled /\ wlog[1].sent = <<>> /\ wlog[1].outcome = "returned"
    /\ wlog[2].enabled /\ wlog[2].sent # <<>> /\ wlog[2].outcome = "returned"

---------------------------------------------------------------------------
\* Claims about cancellation of the sampler, checked under SpecSamplerFair

\* stop() of caller c has set the stop signal and has not returned, or has
\* returned and c has made no later call
StopSignalled(c) ==
    cpc[c] \in {"stop91", "stop92", "join", "stop93", "stop94"} \/ Returned(c, "stop")

\* C19: once stop() has set the stop signal, the sampling loop enqueues at
\* most one further record; once stop() has returned no record is enqueued
\* until the next start(); and a loop that is alive while the stop signal is
\* set eventually terminates
C19_CooperativeStop ==
    /\ [](StopSignalled(1) => attempts <= cpre[1].attempts + 1)
    /\ [][Returned(1, "stop") => attempts' = attempts]_vars
    /\ \A t \in Threads : (stop_switch /\ IsAlive(t)) ~> ~IsAlive(t)

\* stop() has returned after the loop enqueued one more record past the stop
\* signal and ended
C19_Witness ==
    /\ Returned(1, "stop")
    /\ attempts = cpre[1].attempts + 1
    /\ cpre[1].running
    /\ AliveThreads = {}

---------------------------------------------------------------------------
\* Claims about the sessions of dispatched operations, checked under
\* SpecDispatch

\* C20: every per-host operation of a dispatch opens one session to its host
\* and releases it on every exit path: a job that runs holds the one session
\* it opened, a job that returned opened exactly one, a job that ended holds
\* none, and no session is open once the ThreadPool call has returned
C20_SessionsReleased ==
    op \in RemoteOps =>
        /\ \A j \in DOMAIN jobs :
              /\ jobs[j].opened <= 1
              /\ jobs[j].state = "running" => jobs[j].opened = 1 /\ jobs[j].open = 1
              /\ jobs[j].state = "returned" => jobs[j].opened = 1 /\ jobs[j].open = 0
              /\ jobs[j].state \in {"waiting", "queued", "raised"} => jobs[j].open = 0
        /\ (PoolDone \/ pc = "done") => \A j \in DOMAIN jobs : jobs[j].open = 0

\* a dispatch over two hosts has returned: one remote call raised inside its
\* session, the other returned, and no session is left open
C20_Witness ==
    /\ op \in RemoteOps
    /\ pc = "done"
    /\ \E j, k \in DOMAIN jobs :
          /\ jobs[j].state = "raised" /\ jobs[j].opened = 1 /\ jobs[j].open = 0
          /\ jobs[k].state = "returned" /\ jobs[k].opened = 1 /\ jobs[k].open = 0

---------------------------------------------------------------------------
\* Claims about get_results, checked under SpecResults

\* the rule ids of the rule store under reqid whose source is owned by host h
RulesOwnedBy(h, reqid) ==
    {id \in DOMAIN rules : rules[id].reqid = reqid /\ rules[id].src \in DOMAIN ep_hosts
                             /\ ep_hosts[rules[id].src] = h}

\* the rows of host h's record store under reqid, in the store's order
RowsOf(h, reqid) == SelectSeq(recs[h], LAMBDA row : Field(row, "reqid") = reqid)

RECURSIVE ConcatRows(_, _)
ConcatRows(hs, reqid) ==
    IF hs = <<>> THEN <<>> ELSE RowsOf(Head(hs), reqid) \o ConcatRows(Tail(hs), reqid)

\* the orders in which the hosts of the set S can be listed
OrdersOf(S) ==
    {q \in [1 .. Cardinality(S) -> S] : \A i, k \in DOMAIN q : i # k => q[i] # q[k]}

\* C21: get_results(reqid) has one fetch job for each host owning a rule of
\* reqid and for no other host, each job opens at most one session, and the
\* call returns the rows of the hosts whose fetch returned, host after host
\* in some order, each host's rows in the order of its store; a host whose
\* fetch failed contributes no row
C21_ResultsPerHostOnce ==
    (op = "get_results" /\ pc = "done") =>
        /\ DOMAIN jobs = {<<"fetch", h>> : h \in {x \in Hosts : RulesOwnedBy(x, loc.reqid) # {}}}
        /\ \A j \in DOMAIN jobs : jobs[j].opened <= 1
        /\ \A j \in DOMAIN jobs : jobs[j].state = "returned" => jobs[j].opened = 1
        /\ \E q \in OrdersOf(HostsIn("fetch", "returned")) :
               loc.ret = ConcatRows(q, loc.reqid)

\* get_results has returned rows fetched from a host that owns two rules of
\* the reqid
C21_Witness ==
    /\ op = "get_results"
    /\ pc = "done"
    /\ \E h \in Hosts :
          /\ Cardinality(RulesOwnedBy(h, loc.reqid)) = 2
          /\ jobs[<<"fetch", h>>].state = "returned"
          /\ Len(loc.ret) >= 1

(***************************************************************************)
(* Claims about concurrent callers of the sampler, checked under           *)
(* SpecSamplerConcurrent.                                                  *)
(***************************************************************************)

\* C22: whatever the interleaving of concurrent start() and stop() calls on
\* one sampler, at most one sampling loop thread is alive at any time.
C22_AtMostOneLoop == Cardinality(AliveThreads) <= 1

---------------------------------------------------------------------------
\* Claims about start_traffic / stop_traffic, checked under SpecDispatch

\* the rule ids the rule store holds under reqid
StoredUnder(reqid) == {id \in DOMAIN rules : rules[id].reqid = reqid}

\* the places where rule id appears in the arguments of the dispatched calls
SentIn(id) ==
    {p \in (DOMAIN jobs) \X (1 .. MaxRules + 1) :
        p[2] <= Len(jobs[p[1]].args) /\ jobs[p[1]].args[p[2]] = id}

\* C23: start_traffic(reqid) / stop_traffic(reqid) make calls of their own
\* operation to hosts only, never to an absent host, each at most once; every
\* rule id a call carries is stored under reqid and its source endpoint is
\* owned by the host called; every rule id stored under reqid is carried once
\* by one call; and there is no call when no rule is stored under reqid.
C23_TrafficOpTargets ==
    op \in {"start_traffic", "stop_traffic"} =>
        /\ \A j \in DOMAIN jobs :
              /\ j[1] = loc.method
              /\ j[2] \in Hosts
              /\ jobs[j].opened <= 1
              /\ jobs[j].state = "returned" => jobs[j].opened = 1
              /\ \A i \in 1 .. Len(jobs[j].args) :
                    /\ jobs[j].args[i] \in StoredUnder(loc.reqid)
                    /\ get_ep_host(rules[jobs[j].args[i]].src) = j[2]
        /\ \A id \in StoredUnder(loc.reqid) : Cardinality(SentIn(id)) = 1
        /\ StoredUnder(loc.reqid) = {} => DOMAIN jobs = {}

\* a start or stop over the two rules of a request has returned: each rule
\* went to the host of its source, in two calls that both returned
C23_Witness ==
    /\ op \in {"start_traffic", "stop_traffic"}
    /\ pc = "done"
    /\ Cardinality(StoredUnder(loc.reqid)) = 2
    /\ Cardinality(DOMAIN jobs) = 2
    /\ \A j \in DOMAIN jobs : jobs[j].state = "returned" /\ Len(jobs[j].args) = 1

---------------------------------------------------------------------------
\* Claims about the local persist of register_traffic, checked under
\* SpecRegister

\* the intents of the batch whose endpoints both resolve
ResolvedIntents == {r \in Range(loc.intent) : ~Unresolved(r)}

\* the entries of the rule store that hold intent r
StoredAs(r) == {id \in DOMAIN rules : rules[id] = create_traffic_rule(r)}

\* C24: register_traffic writes the rule store in one step only, taken when
\* every registration call of every dispatch pass has ended, by returning or
\* by failing; before that step no intent of the batch is in the store, and
\* after it every intent whose endpoints both resolve is in the store exactly
\* once, whether or not a host's registration call failed, and every host's
\* call has been made.
C24_PersistAfterDispatch ==
    /\ [](op = "register" =>
            /\ pc = "dispatch" => \A r \in ResolvedIntents : StoredAs(r) = {}
            /\ pc = "done" =>
                  /\ \A r \in ResolvedIntents : Cardinality(StoredAs(r)) = 1
                  /\ \A j \in DOMAIN jobs : Finished(j))
    /\ [][rules' # rules =>
            /\ op = "register" /\ pc = "dispatch" /\ pc' = "done"
            /\ loc.plan = <<>>
            /\ \A j \in DOMAIN jobs : Finished(j)]_vars

\* a phased registration has returned and its intent is in the rule store,
\* although the call to a server-side host failed; the client-side call was
\* made and returned
C24_Witness ==
    /\ op = "register"
    /\ pc = "done"
    /\ loc.phased
    /\ ResolvedIntents # {}
    /\ \A r \in ResolvedIntents : Cardinality(StoredAs(r)) = 1
    /\ \E j \in DOMAIN jobs : j[1] = "server" /\ jobs[j].state = "raised"
    /\ \E j \in DOMAIN jobs : j[1] = "client" /\ jobs[j].state = "returned"

====
